---- MODULE Spec2Model ----
(***************************************************************************)
(* rdwm: a tiling window manager for X11.                                  *)
(*                                                                         *)
(* The repository holds the manager twice: src/main.rs (the binary, with   *)
(* its own Rdwm/Workspace) and src/rdwm.rs (the refactored module).  The   *)
(* variable `build` says which of the two is running; operators that       *)
(* differ between the two carry the suffix _main for the main.rs variant.  *)
(* X requests the manager issues are recorded, in order, in `reqs`.        *)
(***************************************************************************)
EXTENDS Integers, Sequences, FiniteSets, TLC

\* ------------------------------------------------------------------ bounds
MaxWindows == 2      \* application (context) window ids are 1..MaxWindows
MaxFrames == 3       \* XCreateSimpleWindow calls in one run
MaxExisting == 2     \* windows XQueryTree reports at startup
MaxScreenW == 6      \* screen widths are MaxScreenW-1 .. MaxScreenW
MaxScreenH == 2      \* screen height

\* ------------------------------------------------------- program constants
Root == 0                     \* XDefaultRootWindow
ReturnKeycode == 36           \* XKeysymToKeycode(display, XK_Return)
border_width == 3
border_color == 3239244       \* 0x316d4c
bg_color == 6238573           \* 0x5f316d
yellow == 15657130            \* 0xEEE8AA
blue == 6238573               \* 0x5f316d
BadWindow == 3
BadMatch == 8
BadAccess == 10

Builds == {"rdwm", "main"}
Windows == 1..MaxWindows
ScreenWidths == (MaxScreenW - 1)..MaxScreenW
\* The k-th frame XCreateSimpleWindow returns (k = 0, 1, ...): a fresh id.
FrameId(k) == MaxWindows + 1 + k
FrameIds == {FrameId(k) : k \in 0..(MaxFrames - 1)}
ErrorCodes == {BadWindow, BadMatch, BadAccess}
RootRunMask == {"SubstructureRedirect", "SubstructureNotify", "FocusChange"}
FrameMask == {"SubstructureRedirect", "SubstructureNotify", "FocusChange",
              "EnterWindow", "LeaveWindow"}
GrabMods == {"Control", "Mod1"}

VARIABLES
  build,        \* which source file is running: "rdwm" or "main"
  pc,           \* position of the process: main, run, scan, loop_top,
                \* next_event, returned, exited, panicked
  wm_detected,  \* the global WM_DETECTED flag
  workspaces,   \* Rdwm.workspaces
  current,      \* Rdwm.current
  nframes,      \* frames created so far (the X server's id allocation)
  existing,     \* run()'s local: number of children XQueryTree reported
  scan_i,       \* run()'s local: position of the scan in the existing windows
  ev,           \* the event (or startup step) handled last
  reqs,         \* X requests issued (and X errors received) since the last
                \* flush: by the startup or by the handler that ran last
  exit_code,    \* -1 while the process runs, else its exit status
  xserver       \* what the requests issued so far have made of the server:
                \* the parent of each application window and the save-set

vars == <<build, pc, wm_detected, workspaces, current, nframes,
          existing, scan_i, ev, reqs, exit_code, xserver>>

\* ------------------------------------------------------------- data model
\* Quad::from_size(h, w)
from_size(h, w) == [x |-> 0, y |-> 0, w |-> w, h |-> h]

\* WindowFlags::NONE as the set of its bits: no bit in rdwm.rs (0 << 0), the
\* bit of its own in main.rs (1 << 0). TILING and FLOATING are other bits.
WindowFlags_NONE == IF build = "main" THEN {"NONE"} ELSE {}

\* Client::new: frame and context are Windows whose attrs are the tiling quad.
Client_new(frame, context, attrs, flags) ==
  [frame |-> frame, context |-> context, attrs |-> attrs, flags |-> flags]

\* Workspace::init
Workspace_init(number, screen) ==
  [number |-> number, clients |-> <<>>, selected |-> 0, floating |-> 0,
   screen |-> screen]

\* Rdwm::get_current: the workspace at index `current` (0-based).
get_current == workspaces[current + 1]

\* Vec::remove(index), 0-based
Remove(s, index) == SubSeq(s, 1, index) \o SubSeq(s, index + 2, Len(s))

\* Position (0-based) of the first TRUE of a sequence of booleans, or -1.
FirstTrue(hits) ==
  IF \E j \in 1..Len(hits) : hits[j]
  THEN (CHOOSE j \in 1..Len(hits) : hits[j] /\ \A k \in 1..(j - 1) : ~hits[k]) - 1
  ELSE -1

\* clients.iter().enumerate().find(|(_, c)| c.context.id == window)
FindContext(clients, window) ==
  FirstTrue([j \in 1..Len(clients) |-> clients[j].context = window])

\* clients.iter().enumerate().find(|(_, c)| c.frame.id == window)
FindFrame(clients, window) ==
  FirstTrue([j \in 1..Len(clients) |-> clients[j].frame = window])

\* The Actions of config.rs that bindings in this model map a key to.
Actions == {"NoAction", "Exit", "Execute"}

\* The x, y, width, height, border_width, above and detail of an
\* XConfigureRequestEvent.
Geometry(x, y, width, height, border, above, detail) ==
  [x |-> x, y |-> y, width |-> width, height |-> height,
   border_width |-> border, above |-> above, detail |-> detail]
NoGeometry == Geometry(0, 0, 0, 0, 0, 0, 0)

\* An event record (or a startup step); the fields a type does not carry are
\* 0 / FALSE / "NoAction" / {}. For a KeyPress, `action` is the Action that
\* Config.bindings holds for the key pressed; `bindings` is the binding
\* table of the Config handed to register_root, as (keycode, modifiers).
Event(type, window) ==
  [type |-> type, window |-> window, event |-> 0, ok |-> FALSE,
   override_redirect |-> FALSE, viewable |-> FALSE, code |-> 0,
   keycode |-> 0, value_mask |-> 0, geometry |-> NoGeometry,
   action |-> "NoAction", bindings |-> {}]
NoEvent == Event("none", 0)

\* ---------------------------------------------------------------- requests
Req(op, w) == [op |-> op, w |-> w]
ReqParent(op, w, parent) == [op |-> op, w |-> w, parent |-> parent, x |-> 0, y |-> 0]
ReqRect(op, w, x, y, width, height) ==
  [op |-> op, w |-> w, x |-> x, y |-> y, width |-> width, height |-> height]
ReqMask(op, w, mask) == [op |-> op, w |-> w, mask |-> mask]
ReqKey(op, w, keycode, mods) == [op |-> op, w |-> w, keycode |-> keycode, mods |-> mods]
ReqColour(op, w, colour) == [op |-> op, w |-> w, colour |-> colour]

\* The server before any request of the manager: the application windows
\* are children of the root, the save-set is empty, no frame exists.
NoRequests == [parent |-> [w \in Windows |-> Root], save_set |-> {}, frames |-> {}]

\* The server after the requests of `trace`, in order: XReparentWindow gives
\* an application window its parent, XAddToSaveSet and XRemoveFromSaveSet
\* change the save-set, XCreateSimpleWindow makes a frame and XDestroyWindow
\* of a frame ends it.
RECURSIVE ApplyRequests(_, _)
ApplyRequests(x, trace) ==
  IF trace = <<>> THEN x
  ELSE LET q == Head(trace)
           y == IF q.op = "ReparentWindow" /\ q.w \in Windows
                THEN [x EXCEPT !.parent[q.w] = q.parent]
                ELSE IF q.op = "AddToSaveSet"
                THEN [x EXCEPT !.save_set = @ \cup {q.w}]
                ELSE IF q.op = "RemoveFromSaveSet"
                THEN [x EXCEPT !.save_set = @ \ {q.w}]
                ELSE IF q.op = "CreateSimpleWindow"
                THEN [x EXCEPT !.frames = @ \cup {q.w}]
                ELSE IF q.op = "DestroyWindow"
                THEN [x EXCEPT !.frames = @ \ {q.w}]
                ELSE x
       IN ApplyRequests(y, Tail(trace))

\* ------------------------------------------------------------- Workspace
\* arrange that gives every column the half-screen width of a new frame.
RECURSIVE arrange_from_halves(_, _)
arrange_from_halves(ws, num) ==
  IF num >= Len(ws.clients) THEN <<>>
  ELSE LET client == ws.clients[num + 1]
           n == Len(ws.clients)
       IN <<ReqRect("MoveResizeWindow", client.frame,
                    (num * client.attrs.w) \div n, 0,
                    ws.screen.w \div 2, ws.screen.h),
            ReqRect("MoveResizeWindow", client.context, 0, 0,
                    ws.screen.w \div 2, ws.screen.h),
            Req("MapWindow", client.frame),
            Req("MapWindow", client.context)>>
          \o arrange_from_halves(ws, num + 1)

\* Workspace::arrange: the requests that tile the clients in equal columns.
RECURSIVE arrange_from(_, _)
arrange_from(ws, num) ==
  IF num >= Len(ws.clients) THEN <<>>
  ELSE LET client == ws.clients[num + 1]
           n == Len(ws.clients)
       IN <<ReqRect("MoveResizeWindow", client.frame,
                    (num * client.attrs.w) \div n, 0,
                    ws.screen.w \div n, ws.screen.h),
            ReqRect("MoveResizeWindow", client.context, 0, 0,
                    ws.screen.w \div n, ws.screen.h),
            Req("MapWindow", client.frame),
            Req("MapWindow", client.context)>>
          \o arrange_from(ws, num + 1)

arrange(ws) == arrange_from(ws, 0)

\* create_window that forgets to map the context.
create_window_unmapped(ws, frame, window) ==
  [ws |-> [ws EXCEPT !.clients =
             Append(@, Client_new(frame, window,
                                  from_size(ws.screen.h, ws.screen.w), WindowFlags_NONE))],
   reqs |-> <<[op |-> "CreateSimpleWindow", w |-> frame, parent |-> Root,
               x |-> 0, y |-> 0, width |-> ws.screen.w \div 2,
               height |-> ws.screen.h, border |-> border_width,
               colour |-> border_color, bg |-> bg_color],
              ReqMask("SelectInput", frame, FrameMask),
              ReqParent("ReparentWindow", window, frame),
              Req("MapWindow", frame),
              Req("GrabButton", window)>>,
   panic |-> "no"]

\* create_window that makes the client with Client::floating and leaves the
\* workspace's count of floating clients alone.
create_window_floating(ws, frame, window) ==
  [ws |-> [ws EXCEPT !.clients =
             Append(@, Client_new(frame, window,
                                  from_size(ws.screen.h, ws.screen.w), {"FLOATING"}))],
   reqs |-> <<[op |-> "CreateSimpleWindow", w |-> frame, parent |-> Root,
               x |-> 0, y |-> 0, width |-> ws.screen.w \div 2,
               height |-> ws.screen.h, border |-> border_width,
               colour |-> border_color, bg |-> bg_color],
              ReqMask("SelectInput", frame, FrameMask),
              ReqParent("ReparentWindow", window, frame),
              Req("MapWindow", frame),
              Req("MapWindow", window),
              Req("GrabButton", window)>>,
   panic |-> "no"]

\* Workspace::create_window: the frame is created, the context reparented
\* under it, both mapped, and the client appended.
create_window(ws, frame, window) ==
  [ws |-> [ws EXCEPT !.clients =
             Append(@, Client_new(frame, window,
                                  from_size(ws.screen.h, ws.screen.w), WindowFlags_NONE))],
   reqs |-> <<[op |-> "CreateSimpleWindow", w |-> frame, parent |-> Root,
               x |-> 0, y |-> 0, width |-> ws.screen.w \div 2,
               height |-> ws.screen.h, border |-> border_width,
               colour |-> border_color, bg |-> bg_color],
              ReqMask("SelectInput", frame, FrameMask),
              ReqParent("ReparentWindow", window, frame),
              Req("MapWindow", frame),
              Req("MapWindow", window),
              Req("GrabButton", window)>>,
   panic |-> "no"]

\* destroy_window with the frame destroyed before the context is reparented.
destroy_window_frame_first(ws, index) ==
  LET client == ws.clients[index + 1]
      after == [ws EXCEPT !.clients = Remove(@, index)]
  IN [ws |-> after,
      reqs |-> <<Req("UnmapWindow", client.context),
                 Req("UnmapWindow", client.frame),
                 Req("DestroyWindow", client.frame),
                 ReqParent("ReparentWindow", client.context, Root),
                 Req("DestroyWindow", client.context)>> \o arrange(after),
      panic |-> "no"]

\* destroy_window that drops the last client instead of the one at `index`.
destroy_window_pop(ws, index) ==
  LET client == ws.clients[index + 1]
      after == [ws EXCEPT !.clients = SubSeq(@, 1, Len(@) - 1)]
  IN [ws |-> after,
      reqs |-> <<Req("UnmapWindow", client.context),
                 Req("UnmapWindow", client.frame),
                 ReqParent("ReparentWindow", client.context, Root),
                 Req("DestroyWindow", client.context),
                 Req("DestroyWindow", client.frame)>> \o arrange(after),
      panic |-> "no"]

\* destroy_window that leaves the frame window in place.
destroy_window_keep_frame(ws, index) ==
  LET client == ws.clients[index + 1]
      after == [ws EXCEPT !.clients = Remove(@, index)]
  IN [ws |-> after,
      reqs |-> <<Req("UnmapWindow", client.context),
                 Req("UnmapWindow", client.frame),
                 ReqParent("ReparentWindow", client.context, Root),
                 Req("DestroyWindow", client.context)>> \o arrange(after),
      panic |-> "no"]

\* destroy_window that runs arrange before it removes the client.
destroy_window_arrange_first(ws, index) ==
  LET client == ws.clients[index + 1]
      after == [ws EXCEPT !.clients = Remove(@, index)]
  IN [ws |-> after,
      reqs |-> <<Req("UnmapWindow", client.context),
                 Req("UnmapWindow", client.frame),
                 ReqParent("ReparentWindow", client.context, Root),
                 Req("DestroyWindow", client.context),
                 Req("DestroyWindow", client.frame)>> \o arrange(ws),
      panic |-> "no"]

\* Workspace::destroy_window (rdwm.rs): teardown of the client at `index`,
\* removal from the sequence, then arrange.
destroy_window(ws, index) ==
  LET client == ws.clients[index + 1]
      after == [ws EXCEPT !.clients = Remove(@, index)]
  IN [ws |-> after,
      reqs |-> <<Req("UnmapWindow", client.context),
                 Req("UnmapWindow", client.frame),
                 ReqParent("ReparentWindow", client.context, Root),
                 Req("DestroyWindow", client.context),
                 Req("DestroyWindow", client.frame)>> \o arrange(after),
      panic |-> "no"]

\* Workspace::update_selected (rdwm.rs)
update_selected(ws, index) ==
  LET inrange == Len(ws.clients) > ws.selected
      sel == IF inrange THEN index ELSE Len(ws.clients) - 1
      old == IF inrange
             THEN <<ReqColour("SetWindowBorder", ws.clients[ws.selected + 1].frame, blue)>>
             ELSE <<>>
  IN IF sel >= 0 /\ sel < Len(ws.clients)
     THEN [ws |-> [ws EXCEPT !.selected = sel],
           reqs |-> old \o <<ReqColour("SetWindowBorder", ws.clients[sel + 1].frame, yellow)>>,
           panic |-> "no"]
     ELSE [ws |-> [ws EXCEPT !.selected = sel], reqs |-> old, panic |-> "panic"]

\* Workspace::update_selected (main.rs): indexes clients[selected] unchecked.
update_selected_main(ws, index) ==
  IF ws.selected >= Len(ws.clients)
  THEN [ws |-> ws, reqs |-> <<>>, panic |-> "panic"]
  ELSE IF index >= Len(ws.clients)
  THEN [ws |-> [ws EXCEPT !.selected = index],
        reqs |-> <<ReqColour("SetWindowBorder", ws.clients[ws.selected + 1].frame, blue)>>,
        panic |-> "panic"]
  ELSE [ws |-> [ws EXCEPT !.selected = index],
        reqs |-> <<ReqColour("SetWindowBorder", ws.clients[ws.selected + 1].frame, blue),
                   ReqColour("SetWindowBorder", ws.clients[index + 1].frame, yellow)>>,
        panic |-> "no"]

\* ------------------------------------------------------------------ Rdwm
\* Rdwm::on_wm_detected (rdwm.rs): the X error callback only logs; the write
\* of the flag is commented out.
on_wm_detected(code, flag) == [detected |-> flag, panic |-> "no"]

\* Rdwm::on_wm_detected (main.rs): asserts the code is BadAccess (a panic
\* inside an extern "C" callback), then sets the flag.
on_wm_detected_main(code, flag) ==
  IF code = BadAccess
  THEN [detected |-> TRUE, panic |-> "no"]
  ELSE [detected |-> flag, panic |-> "abort"]

\* The error callback XSetErrorHandler installed, for the running build.
ErrorHandler(code, flag) ==
  IF build = "main" THEN on_wm_detected_main(code, flag)
  ELSE on_wm_detected(code, flag)

\* frame that filters on the attributes whether or not the window existed
\* before the manager.
frame_filter_always(ws, window, already_existing, attrs, fid) ==
  LET get == <<Req("GetWindowAttributes", window)>> IN
  IF ~attrs.ok
  THEN [ws |-> ws, reqs |-> get,
        panic |-> IF ErrorHandler(BadWindow, wm_detected).panic = "abort"
                  THEN "abort" ELSE "panic",
        created |-> FALSE]
  ELSE IF attrs.override_redirect \/ ~attrs.viewable
  THEN [ws |-> ws, reqs |-> get, panic |-> "no", created |-> FALSE]
  ELSE LET c == create_window(ws, fid, window)
       IN [ws |-> c.ws,
           reqs |-> get \o c.reqs \o <<Req("AddToSaveSet", window)>>
                    \o arrange(c.ws),
           panic |-> "no", created |-> TRUE]

\* Rdwm::frame: attrs is what XGetWindowAttributes answers; on failure Xlib
\* first calls the error callback with BadWindow, then the assert fails.
frame(ws, window, already_existing, attrs, fid) ==
  LET get == <<Req("GetWindowAttributes", window)>> IN
  IF ~attrs.ok
  THEN [ws |-> ws, reqs |-> get,
        panic |-> IF ErrorHandler(BadWindow, wm_detected).panic = "abort"
                  THEN "abort" ELSE "panic",
        created |-> FALSE]
  ELSE IF already_existing /\ (attrs.override_redirect \/ ~attrs.viewable)
  THEN [ws |-> ws, reqs |-> get, panic |-> "no", created |-> FALSE]
  ELSE LET c == create_window(ws, fid, window)
       IN [ws |-> c.ws,
           reqs |-> get \o c.reqs \o <<Req("AddToSaveSet", window)>>
                    \o arrange(c.ws),
           panic |-> "no", created |-> TRUE]

\* on_unmap_notify without the test of the event field against the root.
on_unmap_notify_any_event(ws, e) ==
  LET num == FindContext(ws.clients, e.window)
  IN IF num < 0
     THEN [ws |-> ws, reqs |-> <<>>, panic |-> "panic"]
     ELSE destroy_window(ws, num)

\* Rdwm::on_unmap_notify (rdwm.rs)
on_unmap_notify(ws, e) ==
  IF e.event = Root
  THEN [ws |-> ws, reqs |-> <<>>, panic |-> "no"]
  ELSE LET num == FindContext(ws.clients, e.window)
       IN IF num < 0
          THEN [ws |-> ws, reqs |-> <<>>, panic |-> "panic"]
          ELSE destroy_window(ws, num)

\* Rdwm::on_unmap_notify (main.rs): the context is unframed, then the client
\* vector is indexed by the window identifier.
on_unmap_notify_main(ws, e) ==
  IF e.event = Root
  THEN [ws |-> ws, reqs |-> <<>>, panic |-> "no"]
  ELSE LET num == FindContext(ws.clients, e.window)
       IN IF num < 0
          THEN [ws |-> ws, reqs |-> <<>>, panic |-> "no"]
          ELSE LET client == ws.clients[num + 1]
                   out == <<Req("UnmapWindow", client.context),
                            ReqParent("ReparentWindow", e.window, Root),
                            Req("RemoveFromSaveSet", e.window),
                            Req("DestroyWindow", client.context)>>
               IN IF e.window >= Len(ws.clients)
                  THEN [ws |-> ws, reqs |-> out, panic |-> "panic"]
                  ELSE [ws |-> [ws EXCEPT !.clients = Remove(@, e.window)],
                        reqs |-> out, panic |-> "no"]

\* on_enter_notify that expects a client for the window entered.
on_enter_notify_expect(ws, e) ==
  LET num == FindFrame(ws.clients, e.window)
  IN IF num < 0
     THEN [ws |-> ws, reqs |-> <<>>, panic |-> "panic"]
     ELSE update_selected(ws, num)

\* Rdwm::on_enter_notify (rdwm.rs)
on_enter_notify(ws, e) ==
  LET num == FindFrame(ws.clients, e.window)
  IN IF num < 0
     THEN [ws |-> ws, reqs |-> <<>>, panic |-> "no"]
     ELSE update_selected(ws, num)

\* Rdwm::on_enter_notify (main.rs)
on_enter_notify_main(ws, e) ==
  LET num == FindFrame(ws.clients, e.window)
  IN IF num < 0
     THEN [ws |-> ws, reqs |-> <<>>, panic |-> "panic"]
     ELSE update_selected_main(ws, num)

\* The XWindowChanges on_configure_request fills from the event.
XWindowChanges(e) ==
  [x |-> e.geometry.x, y |-> e.geometry.y, width |-> e.geometry.width,
   height |-> e.geometry.height, border_width |-> e.geometry.border_width,
   sibling |-> e.geometry.above, stack_mode |-> e.geometry.detail]

\* on_configure_request that configures the event window only.
on_configure_request_context_only(ws, e) ==
  [ws |-> ws,
   reqs |-> <<[op |-> "ConfigureWindow", w |-> e.window,
               value_mask |-> e.value_mask, changes |-> XWindowChanges(e)]>>,
   panic |-> "no"]

\* Rdwm::on_configure_request (the same in both files). The value-mask of a
\* ConfigureRequest is 16 bits wide, so `event.value_mask as u32` keeps it.
on_configure_request(ws, e) ==
  LET num == FindContext(ws.clients, e.window)
      conf(w) == [op |-> "ConfigureWindow", w |-> w, value_mask |-> e.value_mask,
                  changes |-> XWindowChanges(e)]
  IN [ws |-> ws,
      reqs |-> (IF num >= 0 THEN <<conf(ws.clients[num + 1].frame)>> ELSE <<>>)
               \o <<conf(e.window)>>,
      panic |-> "no"]

\* Rdwm::on_key_press (rdwm.rs): the Return grab is released; the bindings of
\* the configuration (e.action) are not looked at.
on_key_press(ws, e) ==
  [ws |-> ws,
   reqs |-> IF e.keycode = ReturnKeycode
            THEN <<ReqKey("UngrabKey", Root, ReturnKeycode, GrabMods)>>
            ELSE <<>>,
   panic |-> "no"]

\* A DestroyNotify handler that tears the client of the window down.
logged_only_teardown(ws, e) ==
  LET num == FindContext(ws.clients, e.window)
  IN IF e.type = "DestroyNotify" /\ num >= 0
     THEN destroy_window(ws, num)
     ELSE [ws |-> ws, reqs |-> <<>>, panic |-> "no"]

\* A dispatch with no arm for the types that are only logged.
logged_only_unimplemented(ws, e) == [ws |-> ws, reqs |-> <<>>, panic |-> "panic"]

\* The handlers that only log: on_create_notify, on_destroy_notify,
\* on_reparent_notify, on_map_notify, on_configure_notify, on_leave,
\* on_focus_in, on_button_press.
logged_only(ws, e) == [ws |-> ws, reqs |-> <<>>, panic |-> "no"]

\* The `_ => unimplemented!()` arm of the dispatch in Rdwm::run.
unimplemented(ws, e) == [ws |-> ws, reqs |-> <<>>, panic |-> "panic"]

\* Rdwm::register_root (rdwm.rs): one key grab and the KeyPress selection.
register_root ==
  <<ReqKey("GrabKey", Root, ReturnKeycode, GrabMods),
    ReqMask("SelectInput", Root, {"KeyPress"})>>

\* init whose `current` is the number of workspaces instead of the position
\* of the one it made.
init_current_len(display_ok, screen_ok, w, h) ==
  IF ~display_ok THEN [result |-> "None"]
  ELSE IF ~screen_ok
  THEN [result |-> IF build = "main" THEN "panic" ELSE "None"]
  ELSE [result |-> "Some",
        workspaces |-> <<Workspace_init(0, from_size(h, w))>>,
        current |-> 1,
        reqs |-> IF build = "rdwm" THEN register_root ELSE <<>>]

\* Rdwm::init; "None" when the display (or, in rdwm.rs, the screen) is
\* missing, "panic" for main.rs without a screen.
init(display_ok, screen_ok, w, h) ==
  IF ~display_ok THEN [result |-> "None"]
  ELSE IF ~screen_ok
  THEN [result |-> IF build = "main" THEN "panic" ELSE "None"]
  ELSE [result |-> "Some",
        workspaces |-> <<Workspace_init(0, from_size(h, w))>>,
        current |-> 0,
        reqs |-> IF build = "rdwm" THEN register_root ELSE <<>>]

\* ------------------------------------------------------------- the process
Init ==
  /\ build \in Builds
  /\ pc = "main"
  /\ wm_detected = FALSE
  /\ workspaces = <<>>
  /\ current = 0
  /\ nframes = 0
  /\ existing = 0
  /\ scan_i = 0
  /\ ev = NoEvent
  /\ reqs = <<>>
  /\ exit_code = -1
  /\ xserver = NoRequests

\* A Rust panic on the main thread ends the process with status 101; a panic
\* inside the extern "C" error callback cannot unwind into Xlib and ends it
\* by a signal or, where it does unwind, with 101.
ExitCodes(panic) == IF panic = "abort" THEN {101, 132, 134} ELSE {101}

Crash(panic) ==
  /\ pc' = "panicked"
  /\ exit_code' \in ExitCodes(panic)

\* An X error delivered to the callback, as it appears in the trace.
ErrorReply(code) == [op |-> "XError", w |-> Root, code |-> code]

\* main(): Rdwm::init().ok_or(..).unwrap()
main_init(display_ok, screen_ok, w, h) ==
  /\ pc = "main"
  /\ LET r == init(display_ok, screen_ok, w, h) IN
     IF r.result = "Some"
     THEN /\ workspaces' = r.workspaces
          /\ current' = r.current
          /\ reqs' = r.reqs
          /\ pc' = "run"
          /\ UNCHANGED exit_code
     ELSE /\ Crash("panic")
          /\ UNCHANGED <<workspaces, current, reqs>>
  /\ ev' = [Event("init", Root) EXCEPT !.ok = display_ok, !.viewable = screen_ok]
  /\ UNCHANGED <<build, wm_detected, nframes, existing, scan_i, xserver>>

\* run that queries the tree without grabbing the server.
run_setup_no_grab(n, other_wm) ==
  /\ pc = "run"
  /\ LET cb == IF other_wm THEN ErrorHandler(BadAccess, wm_detected)
               ELSE [detected |-> wm_detected, panic |-> "no"]
         out == <<ReqMask("SelectInput", Root, RootRunMask), Req("Sync", Root)>>
                \o (IF other_wm THEN <<ErrorReply(BadAccess)>> ELSE <<>>)
     IN IF cb.panic # "no"
        THEN /\ Crash(cb.panic)
             /\ reqs' = reqs \o out
             /\ UNCHANGED <<wm_detected, existing>>
        ELSE /\ wm_detected' = cb.detected
             /\ reqs' = reqs \o out \o <<Req("QueryTree", Root)>>
             /\ existing' = n
             /\ pc' = "scan"
             /\ UNCHANGED exit_code
  /\ ev' = [Event("run", Root) EXCEPT !.code = IF other_wm THEN BadAccess ELSE 0]
  /\ UNCHANGED <<build, workspaces, current, nframes, scan_i, xserver>>

\* Rdwm::run up to the scan: error handler, SelectInput on the root, XSync
\* (which delivers BadAccess to the callback when another manager holds the
\* redirect: other_wm), XGrabServer and XQueryTree reporting n children.
run_setup(n, other_wm) ==
  /\ pc = "run"
  /\ LET cb == IF other_wm THEN ErrorHandler(BadAccess, wm_detected)
               ELSE [detected |-> wm_detected, panic |-> "no"]
         out == <<ReqMask("SelectInput", Root, RootRunMask), Req("Sync", Root)>>
                \o (IF other_wm THEN <<ErrorReply(BadAccess)>> ELSE <<>>)
     IN IF cb.panic # "no"
        THEN /\ Crash(cb.panic)
             /\ reqs' = reqs \o out
             /\ UNCHANGED <<wm_detected, existing>>
        ELSE /\ wm_detected' = cb.detected
             /\ reqs' = reqs \o out \o <<Req("GrabServer", Root), Req("QueryTree", Root)>>
             /\ existing' = n
             /\ pc' = "scan"
             /\ UNCHANGED exit_code
  /\ ev' = [Event("run", Root) EXCEPT !.code = IF other_wm THEN BadAccess ELSE 0]
  /\ UNCHANGED <<build, workspaces, current, nframes, scan_i, xserver>>

\* One turn of `for w in existing.iter() { self.frame(w, true) }`.
scan_frame(ok, override_redirect, viewable) ==
  /\ pc = "scan"
  /\ scan_i < existing
  /\ nframes < MaxFrames
  /\ LET e == [Event("scan", scan_i + 1) EXCEPT !.ok = ok,
                 !.override_redirect = override_redirect, !.viewable = viewable]
         r == frame(get_current, e.window, TRUE, e, FrameId(nframes))
     IN /\ ev' = e
        /\ reqs' = reqs \o r.reqs
        /\ xserver' = ApplyRequests(xserver, r.reqs)
        /\ workspaces' = [workspaces EXCEPT ![current + 1] = r.ws]
        /\ nframes' = IF r.created THEN nframes + 1 ELSE nframes
        /\ IF r.panic # "no"
           THEN Crash(r.panic) /\ UNCHANGED scan_i
           ELSE scan_i' = scan_i + 1 /\ UNCHANGED <<pc, exit_code>>
  /\ UNCHANGED <<build, wm_detected, current, existing>>

\* End of the scan: XFree, XUngrabServer, and the loop is entered; the
\* scan's locals go out of use.
scan_done ==
  /\ pc = "scan"
  /\ scan_i = existing
  /\ reqs' = reqs \o <<Req("UngrabServer", Root)>>
  /\ pc' = "loop_top"
  /\ ev' = Event("ungrab", Root)
  /\ existing' = 0
  /\ scan_i' = 0
  /\ UNCHANGED <<build, wm_detected, workspaces, current, nframes, exit_code,
                 xserver>>

\* The loop without its check of WM_DETECTED.
loop_check_unchecked ==
  /\ pc = "loop_top"
  /\ pc' = "next_event" /\ ev' = NoEvent /\ reqs' = <<>>
  /\ UNCHANGED <<build, wm_detected, workspaces, current, nframes,
                 existing, scan_i, exit_code, xserver>>

\* Top of `loop`: return when WM_DETECTED is set; else a zeroed XEvent is
\* made and XNextEvent flushes the requests issued so far and blocks.
loop_check ==
  /\ pc = "loop_top"
  /\ IF wm_detected
     THEN pc' = "returned" /\ UNCHANGED <<ev, reqs>>
     ELSE pc' = "next_event" /\ ev' = NoEvent /\ reqs' = <<>>
  /\ UNCHANGED <<build, wm_detected, workspaces, current, nframes,
                 existing, scan_i, exit_code, xserver>>

\* main() after run() returned: "Finish OK", Ok(()).
main_exit ==
  /\ pc = "returned"
  /\ pc' = "exited"
  /\ exit_code' = 0
  /\ UNCHANGED <<build, wm_detected, workspaces, current, nframes,
                 existing, scan_i, ev, reqs, xserver>>

\* The event XNextEvent returned is handled with result r, and the loop
\* goes back to its top.
Dispatch(e, r) ==
  /\ ev' = e
  /\ reqs' = r.reqs
  /\ xserver' = ApplyRequests(xserver, r.reqs)
  /\ workspaces' = [workspaces EXCEPT ![current + 1] = r.ws]
  /\ IF r.panic # "no"
     THEN Crash(r.panic)
     ELSE pc' = "loop_top" /\ UNCHANGED exit_code
  /\ UNCHANGED <<build, wm_detected, current, existing, scan_i>>

MapRequest(window, ok, override_redirect, viewable) ==
  /\ pc = "next_event"
  /\ nframes < MaxFrames
  /\ LET e == [Event("MapRequest", window) EXCEPT !.ok = ok,
                 !.override_redirect = override_redirect, !.viewable = viewable]
         r == frame(get_current, window, FALSE, e, FrameId(nframes))
     IN /\ Dispatch(e, r)
        /\ nframes' = IF r.created THEN nframes + 1 ELSE nframes

UnmapNotify(event, window) ==
  /\ pc = "next_event"
  /\ LET e == [Event("UnmapNotify", window) EXCEPT !.event = event]
     IN Dispatch(e, IF build = "main" THEN on_unmap_notify_main(get_current, e)
                    ELSE on_unmap_notify(get_current, e))
  /\ UNCHANGED nframes

EnterNotify(window) ==
  /\ pc = "next_event"
  /\ LET e == Event("EnterNotify", window)
     IN Dispatch(e, IF build = "main" THEN on_enter_notify_main(get_current, e)
                    ELSE on_enter_notify(get_current, e))
  /\ UNCHANGED nframes

ConfigureRequest(window, value_mask, geometry) ==
  /\ pc = "next_event"
  /\ LET e == [Event("ConfigureRequest", window) EXCEPT
                 !.value_mask = value_mask, !.geometry = geometry]
     IN Dispatch(e, on_configure_request(get_current, e))
  /\ UNCHANGED nframes

\* KeyPress: on_key_press in rdwm.rs; main.rs has no arm for it.
KeyPress(keycode, action) ==
  /\ pc = "next_event"
  /\ LET e == [Event("KeyPress", Root) EXCEPT !.keycode = keycode,
                                              !.action = action]
     IN Dispatch(e, IF build = "main" THEN unimplemented(get_current, e)
                    ELSE on_key_press(get_current, e))
  /\ UNCHANGED nframes

\* CreateNotify, DestroyNotify, ReparentNotify, MapNotify, ConfigureNotify,
\* LeaveNotify, FocusIn, FocusOut, ButtonPress: the handler logs and returns.
LoggedTypes ==
  {"CreateNotify", "DestroyNotify", "ReparentNotify", "MapNotify",
   "ConfigureNotify", "LeaveNotify", "FocusIn", "FocusOut", "ButtonPress"}

LoggedEvent(type, window) ==
  /\ pc = "next_event"
  /\ LET e == Event(type, window) IN Dispatch(e, logged_only(get_current, e))
  /\ UNCHANGED nframes

\* Any other event type reaches `_ => unimplemented!()`.
OtherTypes == {"KeyRelease", "Expose", "ClientMessage"}

OtherEvent(type) ==
  /\ pc = "next_event"
  /\ LET e == Event(type, Root) IN Dispatch(e, unimplemented(get_current, e))
  /\ UNCHANGED nframes

\* Xlib calls the error callback for an X error that arrives while the loop
\* waits in XNextEvent; the wait then goes on.
XError(code) ==
  /\ pc = "next_event"
  /\ LET cb == ErrorHandler(code, wm_detected)
     IN /\ wm_detected' = cb.detected
        /\ IF cb.panic # "no" THEN Crash(cb.panic) ELSE UNCHANGED <<pc, exit_code>>
  /\ ev' = [Event("XError", Root) EXCEPT !.code = code]
  /\ reqs' = <<ErrorReply(code)>>
  /\ UNCHANGED <<build, workspaces, current, nframes, existing, scan_i, xserver>>

EventWindows == Windows \cup FrameIds

\* The requested geometries: a width alone, and every field set (above a
\* sibling window, stack mode Below).
Geometries == {Geometry(0, 0, 1, 0, 0, 0, 0), Geometry(1, 2, 3, 4, 5, 2, 1)}

\* What XGetWindowAttributes can answer: a failure, or the two attributes.
Attrs == {<<FALSE, FALSE, FALSE>>} \cup
         {<<TRUE, o, v>> : o \in BOOLEAN, v \in BOOLEAN}

Next ==
  \/ \E d \in BOOLEAN, s \in BOOLEAN, w \in ScreenWidths, h \in {MaxScreenH} :
       main_init(d, s, w, h)
  \/ \E n \in 0..MaxExisting, o \in BOOLEAN : run_setup(n, o)
  \/ \E a \in Attrs : scan_frame(a[1], a[2], a[3])
  \/ scan_done
  \/ loop_check
  \/ main_exit
  \/ \E w \in Windows, a \in Attrs : MapRequest(w, a[1], a[2], a[3])
  \/ \E e \in {Root, FrameId(0)}, w \in EventWindows : UnmapNotify(e, w)
  \/ \E w \in EventWindows : EnterNotify(w)
  \/ \E w \in Windows, m \in {4, 12}, g \in Geometries : ConfigureRequest(w, m, g)
  \/ \E k \in {ReturnKeycode, ReturnKeycode + 1}, a \in Actions : KeyPress(k, a)
  \/ \E t \in LoggedTypes, w \in {1, FrameId(0)} : LoggedEvent(t, w)
  \/ \E t \in OtherTypes : OtherEvent(t)
  \/ \E c \in ErrorCodes : XError(c)

Spec == Init /\ [][Next]_vars

\* ------------------------------------------ Workspace::update_selected alone
\* A workspace as create_window builds it: n clients, the frames in the order
\* of their creation.
ClientsOf(ws, n) ==
  [i \in 1..n |-> Client_new(FrameId(i - 1), ((i - 1) % MaxWindows) + 1,
                             from_size(ws.screen.h, ws.screen.w), WindowFlags_NONE)]

\* update_selected is about to be called on a non-empty workspace of n
\* clients with `selected` sel, with the argument index = ev.window.
InitUpdateSelected ==
  /\ build \in Builds
  /\ pc = "call"
  /\ wm_detected = FALSE
  /\ \E w \in ScreenWidths, n \in 1..MaxFrames, sel \in 0..(MaxFrames - 1) :
       LET ws == Workspace_init(0, from_size(MaxScreenH, w))
       IN /\ workspaces = <<[ws EXCEPT !.clients = ClientsOf(ws, n),
                                       !.selected = sel]>>
          /\ nframes = n
          /\ xserver =
               [parent |-> [c \in Windows |->
                              IF c \in {ClientsOf(ws, n)[i].context : i \in 1..n}
                              THEN FrameId((CHOOSE i \in 1..n :
                                     /\ ClientsOf(ws, n)[i].context = c
                                     /\ \A j \in (i + 1)..n :
                                          ClientsOf(ws, n)[j].context # c) - 1)
                              ELSE Root],
                save_set |-> {ClientsOf(ws, n)[i].context : i \in 1..n},
                frames |-> {FrameId(i - 1) : i \in 1..n}]
  /\ current = 0
  /\ existing = 0
  /\ scan_i = 0
  /\ ev \in {Event("update_selected", index) : index \in 0..MaxFrames}
  /\ reqs = <<>>
  /\ exit_code = -1

\* The call: self.update_selected(display, index).
call_update_selected ==
  /\ pc = "call"
  /\ LET r == IF build = "main" THEN update_selected_main(get_current, ev.window)
              ELSE update_selected(get_current, ev.window)
     IN /\ workspaces' = [workspaces EXCEPT ![current + 1] = r.ws]
        /\ reqs' = r.reqs
        /\ IF r.panic # "no"
           THEN Crash(r.panic)
           ELSE pc' = "done" /\ UNCHANGED exit_code
  /\ UNCHANGED <<build, wm_detected, current, nframes, existing, scan_i, ev,
                 xserver>>

NextUpdateSelected == call_update_selected

SpecUpdateSelected == InitUpdateSelected /\ [][NextUpdateSelected]_vars

\* ------------------------------------------- Rdwm::register_root alone
\* The (keycode, modifiers) pairs a binding table may hold.
BindingPairs ==
  {<<k, m>> : k \in ReturnKeycode..(ReturnKeycode + 2), m \in {GrabMods, {"Mod4"}}}

\* Rdwm::init is about to run with a Config whose binding table is
\* ev.bindings.
InitRegisterRoot ==
  /\ build \in Builds
  /\ pc = "call"
  /\ wm_detected = FALSE
  /\ workspaces = <<>>
  /\ current = 0
  /\ nframes = 0
  /\ existing = 0
  /\ scan_i = 0
  /\ ev \in {[Event("register_root", Root) EXCEPT !.bindings = table] :
               table \in SUBSET BindingPairs}
  /\ reqs = <<>>
  /\ exit_code = -1
  /\ xserver = NoRequests

\* Rdwm::init with a display and a screen: register_root(&config, display)
\* and the workspace.
call_register_root ==
  /\ pc = "call"
  /\ LET r == init(TRUE, TRUE, MaxScreenW, MaxScreenH)
     IN /\ workspaces' = r.workspaces
        /\ current' = r.current
        /\ reqs' = r.reqs
  /\ pc' = "grabbed"
  /\ UNCHANGED <<build, wm_detected, nframes, existing, scan_i, ev, exit_code,
                 xserver>>

\* A key is pressed and the KeyPress dispatched (on_key_press in rdwm.rs, no
\* arm in main.rs); the trace of the grabs is kept.
press_key(keycode) ==
  /\ pc = "grabbed"
  /\ LET e == [Event("KeyPress", Root) EXCEPT !.keycode = keycode]
         r == IF build = "main" THEN unimplemented(get_current, e)
              ELSE on_key_press(get_current, e)
     IN /\ reqs' = reqs \o r.reqs
        /\ IF r.panic # "no"
           THEN Crash(r.panic)
           ELSE pc' = "pressed" /\ UNCHANGED exit_code
  /\ ev' = [ev EXCEPT !.keycode = keycode]
  /\ UNCHANGED <<build, wm_detected, workspaces, current, nframes, existing,
                 scan_i, xserver>>

NextRegisterRoot ==
  \/ call_register_root
  \/ \E k \in ReturnKeycode..(ReturnKeycode + 2) : press_key(k)

SpecRegisterRoot == InitRegisterRoot /\ [][NextRegisterRoot]_vars

\* ------------------------------------------------------------------ claims
Clients == get_current.clients
HasWorkspace == Len(workspaces) > 0
\* A step of the event loop that handles an event of this type.
Handles(type) == pc = "next_event" /\ ev'.type = type
\* The requests of the trace whose op is in `ops`.
Only(trace, ops) == SelectSeq(trace, LAMBDA q : q.op \in ops)
Count(trace, op) == Len(Only(trace, {op}))

\* C1: an UnmapNotify (event not the root) for a managed context makes
\* rdwm.rs's on_unmap_notify emit, first of all, UnmapWindow(context),
\* UnmapWindow(frame), ReparentWindow(context -> root), DestroyWindow(context),
\* DestroyWindow(frame): the frame is destroyed after the context left it.
C1_TeardownOrder ==
  [][ (/\ build = "rdwm"
       /\ Handles("UnmapNotify")
       /\ ev'.event # Root
       /\ \E i \in 1..Len(Clients) : Clients[i].context = ev'.window)
      => LET c == Clients[1 + FindContext(Clients, ev'.window)]
         IN /\ Len(reqs') >= 5
            /\ SubSeq(reqs', 1, 5) =
                 <<Req("UnmapWindow", c.context),
                   Req("UnmapWindow", c.frame),
                   ReqParent("ReparentWindow", c.context, Root),
                   Req("DestroyWindow", c.context),
                   Req("DestroyWindow", c.frame)>>
            /\ Count(reqs', "DestroyWindow") = 2 ]_vars

\* C1 witness: a teardown in rdwm.rs that left a client to arrange.
C1_Witness ==
  /\ build = "rdwm" /\ pc = "loop_top"
  /\ ev.type = "UnmapNotify" /\ ev.event # Root
  /\ Len(reqs) > 5 /\ reqs[5].op = "DestroyWindow"
  /\ Len(Clients) >= 1

\* The rectangle arrange last gave the frame of client i (from the trace).
FrameRect(i) ==
  LET q == CHOOSE q \in {reqs[j] : j \in 1..Len(reqs)} :
             q.op = "MoveResizeWindow" /\ q.w = Clients[i].frame
  IN [x |-> q.x, y |-> q.y, w |-> q.width, h |-> q.height]
InRect(r, px, py) ==
  px >= r.x /\ px < r.x + r.w /\ py >= r.y /\ py < r.y + r.h
\* The handler that ended ran arrange over a non-empty workspace.
Arranged ==
  /\ pc = "loop_top" /\ ev.type \in {"MapRequest", "UnmapNotify"}
  /\ Len(Clients) >= 1
  /\ Count(reqs, "MoveResizeWindow") = 2 * Len(Clients)

\* C2: after a MapRequest or UnmapNotify that leaves N >= 1 clients, the
\* frame rectangles arrange assigned are pairwise disjoint and cover exactly
\* the screen (every pixel of the screen lies in exactly one of them and none
\* reaches outside it).
C2_Partition ==
  (build = "rdwm" /\ Arranged) =>
    LET scr == get_current.screen
        n == Len(Clients)
    IN /\ \A px \in 0..(scr.w - 1), py \in 0..(scr.h - 1) :
            Cardinality({i \in 1..n : InRect(FrameRect(i), px, py)}) = 1
       /\ \A i \in 1..n :
            /\ FrameRect(i).x + FrameRect(i).w <= scr.w
            /\ FrameRect(i).y + FrameRect(i).h <= scr.h

\* C3: whenever the client sequence is non-empty, selected is a position in it.
C3_SelectedInRange ==
  (build = "rdwm" /\ HasWorkspace /\ Len(Clients) > 0)
    => get_current.selected < Len(Clients)

\* C4: no two clients have the same context window.
C4_UniqueContexts ==
  HasWorkspace =>
    \A i \in 1..Len(Clients), j \in 1..Len(Clients) :
      Clients[i].context = Clients[j].context => i = j

FramingOps == {"CreateSimpleWindow", "ReparentWindow", "AddToSaveSet", "MapWindow"}
\* The frame the handled MapRequest created: the last client's.
NewClient == Clients[Len(Clients)]
\* MapWindow(frame), MapWindow(context) for each client from position i on.
RECURSIVE MapsFrom(_)
MapsFrom(i) ==
  IF i > Len(Clients) THEN <<>>
  ELSE <<Req("MapWindow", Clients[i].frame), Req("MapWindow", Clients[i].context)>>
       \o MapsFrom(i + 1)

\* C5 as stated: a handled MapRequest emits exactly one CreateSimpleWindow,
\* one ReparentWindow(context -> frame), one AddToSaveSet and two MapWindow,
\* in that order.
C5_AsStated ==
  (pc = "loop_top" /\ ev.type = "MapRequest") =>
    Only(reqs, FramingOps) =
      <<reqs[2], ReqParent("ReparentWindow", ev.window, NewClient.frame),
        Req("AddToSaveSet", ev.window),
        Req("MapWindow", NewClient.frame), Req("MapWindow", ev.window)>>

\* C5 amended: a handled MapRequest (attributes readable) emits exactly one
\* CreateSimpleWindow, then one ReparentWindow(context -> frame, 0, 0), then
\* MapWindow(frame), MapWindow(context), then one AddToSaveSet(context), and
\* after that arrange's MapWindow(frame), MapWindow(context) for each of the
\* N clients now on the workspace: 2 + 2N MapWindow in all.
C5_FramingSequence ==
  (pc = "loop_top" /\ ev.type = "MapRequest") =>
    /\ reqs[2].op = "CreateSimpleWindow" /\ reqs[2].w = NewClient.frame
    /\ NewClient.context = ev.window
    /\ Only(reqs, FramingOps) =
         <<reqs[2], ReqParent("ReparentWindow", ev.window, NewClient.frame),
           Req("MapWindow", NewClient.frame), Req("MapWindow", ev.window),
           Req("AddToSaveSet", ev.window)>> \o MapsFrom(1)
    /\ Count(reqs, "MapWindow") = 2 + 2 * Len(Clients)

\* C5 witness: a MapRequest handled with a client already managed.
C5_Witness ==
  /\ pc = "loop_top" /\ ev.type = "MapRequest"
  /\ Len(Clients) = 2 /\ Count(reqs, "MapWindow") = 6

\* C6: a MapRequest whose GetWindowAttributes fails leaves the clients as
\* they were, creates no frame, and the loop goes on to its next event.
C6_BadWindowContained ==
  [][ (Handles("MapRequest") /\ ~ev'.ok)
      => /\ pc' = "loop_top"
         /\ workspaces' = workspaces
         /\ Count(reqs', "CreateSimpleWindow") = 0 ]_vars

\* The startup trace holds the BadAccess the redirect selection drew.
StartupConflict ==
  /\ ev.type \in {"run", "scan", "ungrab"}
  /\ \E i \in 1..Len(reqs) : reqs[i].op = "XError" /\ reqs[i].code = BadAccess

\* C7: on a conflicting startup no pre-existing window is framed: the
\* startup issues no CreateSimpleWindow and no ReparentWindow.
C7_NoReparentOnConflict ==
  StartupConflict =>
    /\ Count(reqs, "CreateSimpleWindow") = 0
    /\ Count(reqs, "ReparentWindow") = 0

\* C8: the process ends with 0 on a clean shutdown, 1 when the display
\* cannot be opened, 2 when another manager was detected.
C8_ExitCodes ==
  /\ (pc = "panicked" /\ ev.type = "init" /\ ~ev.ok) => exit_code = 1
  /\ (pc = "exited") => exit_code = IF wm_detected THEN 2 ELSE 0

\* C9: the flag WM_DETECTED never goes back to false, and a loop-top check
\* that finds it set returns from run (no further event is read).
C9_FlagMonotonic ==
  [][ /\ wm_detected => wm_detected'
      /\ (wm_detected /\ pc = "loop_top") => pc' = "returned" ]_vars

\* C9 witness: the flag was set and run returned.
C9_Witness == wm_detected /\ pc = "returned"

\* C10: the error callback sets the flag for the BadAccess of the startup
\* selection; for any X error in the loop it leaves the flag as it was and
\* the loop running.
C10_ErrorCallback ==
  [][ /\ (pc = "run" /\ ev'.type = "run" /\ ev'.code = BadAccess) => wm_detected'
      /\ Handles("XError") => (wm_detected' = wm_detected /\ pc' = "next_event")
    ]_vars

\* C11: the event loop is left only by the return at its top with
\* WM_DETECTED set: no event delivered and no failure inside a handler
\* (unmatched window, failed attribute query, unknown event type) ends it.
C11_LoopEndsOnlyByFlag ==
  [][ (pc \in {"loop_top", "next_event"} /\ pc' \notin {"loop_top", "next_event"})
      => (pc = "loop_top" /\ wm_detected /\ pc' = "returned") ]_vars

\* C12: when an EnterNotify whose window is the frame of the client at
\* position k has been handled (rdwm.rs), selected equals k.
C12_EnterSelects ==
  [][ (/\ build = "rdwm"
       /\ Handles("EnterNotify")
       /\ FindFrame(Clients, ev'.window) >= 0)
      => /\ pc' = "loop_top"
         /\ workspaces'[current + 1].selected = FindFrame(Clients, ev'.window)
    ]_vars

\* The handler that ended ran Workspace::arrange, over N >= 1 clients: a
\* framing (MapRequest) or, in rdwm.rs, a teardown.
ArrangeRan ==
  /\ pc = "loop_top"
  /\ \/ ev.type = "MapRequest"
     \/ build = "rdwm" /\ ev.type = "UnmapNotify" /\ ev.event # Root
  /\ Len(Clients) >= 1

\* C13: arrange over N >= 1 clients on a W x H screen issues, for the client
\* at position i, MoveResizeWindow(frame, i*W/N, 0, W/N, H), then
\* MoveResizeWindow(context, 0, 0, W/N, H), and maps both (integer division).
C13_ArrangeGeometry ==
  ArrangeRan =>
    LET n == Len(Clients)
        W == get_current.screen.w
        H == get_current.screen.h
        base == Len(reqs) - 4 * n
    IN /\ base >= 0
       /\ \A i \in 0..(n - 1) :
            /\ reqs[base + 4 * i + 1] =
                 ReqRect("MoveResizeWindow", Clients[i + 1].frame,
                         (i * W) \div n, 0, W \div n, H)
            /\ reqs[base + 4 * i + 2] =
                 ReqRect("MoveResizeWindow", Clients[i + 1].context,
                         0, 0, W \div n, H)
            /\ reqs[base + 4 * i + 3] = Req("MapWindow", Clients[i + 1].frame)
            /\ reqs[base + 4 * i + 4] = Req("MapWindow", Clients[i + 1].context)
       /\ \A j \in 1..base : reqs[j].op # "MoveResizeWindow"

\* C13 witness: arrange ran over three clients on a screen whose width three
\* does not divide.
C13_Witness ==
  /\ ArrangeRan
  /\ Len(Clients) = 3 /\ get_current.screen.w % 3 # 0
  /\ reqs[Len(reqs) - 3].x > 0

\* C14: an UnmapNotify (event not the root) for a managed context removes,
\* in rdwm.rs, exactly one client, the first with that context; the others
\* keep their relative order and are tiled again as N-1 equal columns.
C14_UnmapRemovesOne ==
  [][ (/\ build = "rdwm"
       /\ Handles("UnmapNotify")
       /\ ev'.event # Root
       /\ FindContext(Clients, ev'.window) >= 0)
      => LET k == FindContext(Clients, ev'.window)
             old == Clients
             new == workspaces'[current + 1].clients
             n == Len(old)
             W == get_current.screen.w
             H == get_current.screen.h
             moves == Only(reqs', {"MoveResizeWindow"})
         IN /\ pc' = "loop_top"
            /\ old[k + 1].context = ev'.window
            /\ Len(new) = n - 1
            /\ \A j \in 1..(n - 1) : new[j] = IF j <= k THEN old[j] ELSE old[j + 1]
            /\ Len(moves) = 2 * (n - 1)
            /\ \A j \in 1..(n - 1) :
                 moves[2 * j - 1] =
                   ReqRect("MoveResizeWindow", new[j].frame,
                           ((j - 1) * W) \div (n - 1), 0, W \div (n - 1), H)
    ]_vars

\* C14 witness: of three clients the middle one was unmapped in rdwm.rs and
\* the two others were tiled again.
C14_Witness ==
  /\ build = "rdwm" /\ pc = "loop_top"
  /\ ev.type = "UnmapNotify" /\ ev.event # Root
  /\ Len(Clients) = 2
  /\ reqs[2].op = "UnmapWindow"
  /\ Clients[1].frame < reqs[2].w /\ reqs[2].w < Clients[2].frame
  /\ Count(reqs, "MoveResizeWindow") = 4

\* The step manages ev'.window: one client (that context, the frame just
\* created) is appended and exactly one CreateSimpleWindow is issued.
Manages(issued) ==
  LET new == workspaces'[current + 1].clients
  IN /\ Len(new) = Len(Clients) + 1
     /\ SubSeq(new, 1, Len(Clients)) = Clients
     /\ new[Len(new)].context = ev'.window
     /\ new[Len(new)].frame = FrameId(nframes)
     /\ nframes' = nframes + 1
     /\ Count(issued, "CreateSimpleWindow") = 1
     /\ \E j \in 1..Len(issued) :
          issued[j].op = "CreateSimpleWindow" /\ issued[j].w = FrameId(nframes)

\* C15: with its attributes read, frame(window, already_existing = true)
\* (the startup scan) manages the window if and only if it is viewable and
\* not override-redirect, and else returns with no frame created and the
\* clients unchanged; frame(window, false) (MapRequest) manages it whatever
\* the two attributes are.
C15_FrameFilter ==
  [][ /\ (pc = "scan" /\ ev'.type = "scan" /\ ev'.ok) =>
           LET issued == SubSeq(reqs', Len(reqs) + 1, Len(reqs'))
           IN IF ev'.viewable /\ ~ev'.override_redirect
              THEN Manages(issued)
              ELSE /\ pc' = "scan"
                   /\ workspaces' = workspaces
                   /\ nframes' = nframes
                   /\ Count(issued, "CreateSimpleWindow") = 0
      /\ (Handles("MapRequest") /\ ev'.ok) => Manages(reqs')
    ]_vars

\* C15 witness: the startup scan framed its first window and passed over the
\* second, an override-redirect one.
C15_Witness ==
  /\ pc = "scan" /\ ev.type = "scan" /\ ev.ok /\ ev.override_redirect
  /\ scan_i = 2 /\ Len(Clients) = 1 /\ Clients[1].context = 1

\* The contexts of the managed clients.
ManagedContexts(clients) == {clients[i].context : i \in 1..Len(clients)}

\* C16: a framing adds the context it reparents under the frame to the
\* save-set, a teardown (UnmapNotify of a managed context, event not the
\* root) issues RemoveFromSaveSet for the context, and so, between handlers,
\* the contexts added and not removed are exactly the managed contexts.
C16_SaveSetDiscipline ==
  [][ /\ (Handles("MapRequest") /\ pc' = "loop_top") =>
           \E i, j \in 1..Len(reqs') :
             /\ i < j
             /\ reqs'[i].op = "ReparentWindow" /\ reqs'[i].w = ev'.window
             /\ reqs'[j] = Req("AddToSaveSet", ev'.window)
      /\ (/\ Handles("UnmapNotify") /\ ev'.event # Root
          /\ ev'.window \in ManagedContexts(Clients)) =>
           \E j \in 1..Len(reqs') : reqs'[j] = Req("RemoveFromSaveSet", ev'.window)
      /\ pc' = "loop_top" =>
           xserver'.save_set = ManagedContexts(workspaces'[current + 1].clients)
    ]_vars

\* C17: handling (rdwm.rs) a KeyPress whose key is bound to Exit sets the
\* termination flag, and the loop then returns at its top without reading
\* another event.
C17_ExitBinding ==
  [][ build = "rdwm" =>
        /\ (Handles("KeyPress") /\ ev'.action = "Exit") =>
             (wm_detected' /\ pc' = "loop_top")
        /\ (pc = "loop_top" /\ ev.type = "KeyPress" /\ ev.action = "Exit") =>
             pc' = "returned" ]_vars

\* C18: handling (rdwm.rs) a KeyPress of the grabbed key (Return) bound to
\* Execute makes exactly one spawn call and changes no X state: no X request
\* is emitted (no UngrabKey), the clients and the selection stay as they were.
C18_ExecuteBinding ==
  [][ (/\ build = "rdwm"
       /\ Handles("KeyPress")
       /\ ev'.keycode = ReturnKeycode /\ ev'.action = "Execute")
      => /\ pc' = "loop_top"
         /\ Count(reqs', "Spawn") = 1
         /\ Len(reqs') = 1
         /\ workspaces' = workspaces ]_vars

\* C19: between handlers (rdwm.rs), going by the ReparentWindow requests
\* issued, the context window of every client is a child of that client's
\* frame.
C19_ContextUnderFrame ==
  (build = "rdwm" /\ pc \in {"loop_top", "next_event"}) =>
    \A i \in 1..Len(Clients) :
      xserver.parent[Clients[i].context] = Clients[i].frame

\* Rdwm::init returned Some: main went on to run.
InitSucceeded == pc # "main" /\ ~(pc = "panicked" /\ ev.type = "init")

\* C20: in every state after Rdwm::init succeeded, current is a position in
\* workspaces (get_current and get_mut_current yield Some).
C20_CurrentValid ==
  InitSucceeded => (current >= 0 /\ current < Len(workspaces))

\* C20 witness: the loop waits for an event with a client managed, the
\* workspace at `current` being the one init made.
C20_Witness ==
  /\ pc = "next_event" /\ InitSucceeded
  /\ current + 1 = Len(workspaces)
  /\ Len(Clients) >= 1

\* C21: Workspace.floating equals the number of clients whose flags contain
\* FLOATING.
C21_FloatingCount ==
  HasWorkspace =>
    get_current.floating =
      Cardinality({i \in 1..Len(Clients) : "FLOATING" \in Clients[i].flags})

\* C21 witness: two clients are managed and the loop is between handlers.
C21_Witness ==
  /\ pc = "loop_top" /\ HasWorkspace
  /\ Len(Clients) = 2 /\ get_current.floating = 0

\* C30: every client create_window appended (through MapRequest or the
\* startup scan) carries the TILING flag.
C30_ClientsTiling ==
  (build = "rdwm" /\ HasWorkspace) =>
    \A i \in 1..Len(Clients) : "TILING" \in Clients[i].flags

C23_DestroyAdjustsSelected ==
  [][ (/\ build = "rdwm"
       /\ Handles("UnmapNotify")
       /\ ev'.event # Root
       /\ FindContext(Clients, ev'.window) >= 0
       /\ get_current.selected < Len(Clients))
      => LET i == FindContext(Clients, ev'.window)
             sel == get_current.selected
             after == workspaces'[current + 1]
         IN /\ sel > i => after.selected = sel - 1
            /\ (sel = i /\ Len(after.clients) > 0) =>
                 after.selected < Len(after.clients)
    ]_vars

\* C24: an event whose type has no arm in the dispatch is ignored: the
\* manager state is unchanged, no request is emitted and the loop goes on to
\* the next event.
C24_UnknownIgnored ==
  [][ (pc = "next_event" /\ ev'.type \in OtherTypes)
      => /\ pc' = "loop_top"
         /\ workspaces' = workspaces
         /\ reqs' = <<>> ]_vars

\* C25: an UnmapNotify whose event field is the root is ignored whatever its
\* window is: clients and selection unchanged, no request emitted.
C25_RootUnmapIgnored ==
  [][ (Handles("UnmapNotify") /\ ev'.event = Root)
      => /\ pc' = "loop_top"
         /\ workspaces' = workspaces
         /\ reqs' = <<>> ]_vars

\* C25 witness: an UnmapNotify with event = root for a managed context was
\* handled and the client is still there.
C25_Witness ==
  /\ pc = "loop_top" /\ ev.type = "UnmapNotify" /\ ev.event = Root
  /\ ev.window \in ManagedContexts(Clients)
  /\ reqs = <<>>

\* C26: an UnmapNotify whose event is not the root and whose window is the
\* context of no client causes no teardown: clients unchanged, no request,
\* and the loop goes on.
C26_UnmanagedUnmapIgnored ==
  [][ (/\ Handles("UnmapNotify")
       /\ ev'.event # Root
       /\ ev'.window \notin ManagedContexts(Clients))
      => /\ pc' = "loop_top"
         /\ workspaces' = workspaces
         /\ reqs' = <<>> ]_vars

\* C27: after a DestroyNotify for the context of a client, no client has
\* that context.
C27_DestroyNotifyDrops ==
  [][ (Handles("DestroyNotify") /\ ev'.window \in ManagedContexts(Clients))
      => ev'.window \notin ManagedContexts(workspaces'[current + 1].clients)
    ]_vars

\* The event types of C29.
QuietTypes ==
  {"CreateNotify", "MapNotify", "ReparentNotify", "ConfigureNotify",
   "LeaveNotify", "FocusIn", "FocusOut", "ButtonPress"}

\* C29: the handlers of CreateNotify, MapNotify, ReparentNotify,
\* ConfigureNotify, LeaveNotify, FocusIn, FocusOut and ButtonPress leave the
\* manager state (workspaces, current, flag) unchanged and emit no request.
C29_QuietHandlers ==
  [][ (pc = "next_event" /\ ev'.type \in QuietTypes)
      => /\ pc' = "loop_top"
         /\ workspaces' = workspaces
         /\ current' = current
         /\ wm_detected' = wm_detected
         /\ xserver' = xserver
         /\ reqs' = <<>> ]_vars

\* C29 witness: a ButtonPress was handled with two clients managed.
C29_Witness ==
  /\ pc = "loop_top" /\ ev.type = "ButtonPress"
  /\ Len(Clients) = 2 /\ reqs = <<>>

\* C28: on_configure_request forwards the requested x, y, width, height,
\* border_width, sibling and stack-mode with the request's value-mask: for a
\* managed context ConfigureWindow(frame) then ConfigureWindow(context) with
\* the same values, for any other window one ConfigureWindow on the event
\* window; clients, selection and stored geometry stay as they were.
C28_ConfigureForwarded ==
  [][ Handles("ConfigureRequest")
      => LET g == ev'.geometry
             conf(w) ==
               [op |-> "ConfigureWindow", w |-> w, value_mask |-> ev'.value_mask,
                changes |-> [x |-> g.x, y |-> g.y, width |-> g.width,
                             height |-> g.height, border_width |-> g.border_width,
                             sibling |-> g.above, stack_mode |-> g.detail]]
             k == FindContext(Clients, ev'.window)
         IN /\ pc' = "loop_top"
            /\ workspaces' = workspaces
            /\ reqs' = IF ev'.window \in ManagedContexts(Clients)
                       THEN <<conf(Clients[k + 1].frame), conf(ev'.window)>>
                       ELSE <<conf(ev'.window)>>
    ]_vars

\* C28 witness: a ConfigureRequest with every field set, for a managed
\* context, was forwarded to the frame and to the context.
C28_Witness ==
  /\ pc = "loop_top" /\ ev.type = "ConfigureRequest"
  /\ ev.window \in ManagedContexts(Clients)
  /\ ev.value_mask = 12 /\ ev.geometry.detail = 1
  /\ Len(reqs) = 2 /\ reqs[1].w \in FrameIds /\ reqs[2].w = ev.window

\* The frames of the clients.
ManagedFrames(clients) == {clients[i].frame : i \in 1..Len(clients)}

\* C36: between handlers (rdwm.rs), the frames created with
\* CreateSimpleWindow and not destroyed with DestroyWindow are exactly the
\* frames of the clients of the workspace.
C36_NoFrameLeak ==
  (build = "rdwm" /\ pc \in {"loop_top", "next_event"}) =>
    xserver.frames = ManagedFrames(Clients)

\* C36 witness: in rdwm.rs a client was torn down, its frame is gone, and
\* another client keeps its frame.
C36_Witness ==
  /\ build = "rdwm" /\ pc = "loop_top"
  /\ ev.type = "UnmapNotify" /\ ev.event # Root
  /\ Count(reqs, "DestroyWindow") = 2
  /\ Len(Clients) = 1 /\ nframes = 2
  /\ xserver.frames = {Clients[1].frame}

\* C34: main.rs's on_unmap_notify (event not the root, window the context of
\* a client) removes the client found by that identifier, at its position:
\* never the client at the position equal to the identifier, never out of
\* range.
C34_RemoveByPosition ==
  [][ (/\ build = "main"
       /\ Handles("UnmapNotify")
       /\ ev'.event # Root
       /\ FindContext(Clients, ev'.window) >= 0)
      => /\ pc' = "loop_top"
         /\ workspaces'[current + 1].clients =
              Remove(Clients, FindContext(Clients, ev'.window))
    ]_vars

\* C35: destroying the only client (rdwm.rs) does not fault, and arrange
\* over the empty workspace issues no request: the handler's requests are
\* the five of the teardown.
C35_ArrangeEmpty ==
  [][ (/\ build = "rdwm"
       /\ Handles("UnmapNotify")
       /\ ev'.event # Root
       /\ Len(Clients) = 1
       /\ Clients[1].context = ev'.window)
      => /\ pc' = "loop_top"
         /\ workspaces'[current + 1].clients = <<>>
         /\ Len(reqs') = 5
         /\ Count(reqs', "MoveResizeWindow") = 0
         /\ Count(reqs', "MapWindow") = 0
    ]_vars

\* C35 witness: the only client was destroyed and the loop goes on.
C35_Witness ==
  /\ build = "rdwm" /\ pc = "next_event"
  /\ Len(Clients) = 0 /\ nframes >= 1 /\ xserver.frames = {}

\* C37: in rdwm.rs an EnterNotify whose window is the frame of no client
\* (the workspace may be empty) leaves selection and clients unchanged,
\* emits no SetWindowBorder and does not end the loop.
C37_EnterNoMatch ==
  [][ (/\ build = "rdwm"
       /\ Handles("EnterNotify")
       /\ ev'.window \notin ManagedFrames(Clients))
      => /\ pc' = "loop_top"
         /\ workspaces' = workspaces
         /\ Count(reqs', "SetWindowBorder") = 0
    ]_vars

\* C37 witness: with a client managed, an EnterNotify for the context
\* window (not a frame) was handled in rdwm.rs.
C37_Witness ==
  /\ build = "rdwm" /\ pc = "loop_top"
  /\ ev.type = "EnterNotify"
  /\ Len(Clients) >= 1
  /\ ev.window \in ManagedContexts(Clients)
  /\ reqs = <<>>

\* C31: in the startup of run, every request that frames a pre-existing
\* window (CreateSimpleWindow, ReparentWindow, MapWindow, AddToSaveSet) comes
\* after GrabServer and before UngrabServer, and UngrabServer is issued
\* before the first event is read.
C31_GrabbedScan ==
  [][ /\ ev'.type \in {"run", "scan", "ungrab"} =>
           \A i \in 1..Len(reqs') :
             reqs'[i].op \in FramingOps =>
               /\ \E g \in 1..(i - 1) : reqs'[g].op = "GrabServer"
               /\ \A u \in 1..(i - 1) : reqs'[u].op # "UngrabServer"
      /\ (pc # "next_event" /\ pc' = "next_event") =>
           /\ ev.type = "ungrab" => reqs[Len(reqs)].op = "UngrabServer"
           /\ ev.type \in {"init", "run", "scan"} => FALSE
    ]_vars

\* C31 witness: the startup framed two pre-existing windows and released the
\* server; the loop is about to read its first event.
C31_Witness ==
  /\ pc = "loop_top" /\ ev.type = "ungrab"
  /\ Count(reqs, "CreateSimpleWindow") = 2
  /\ Count(reqs, "GrabServer") = 1 /\ Count(reqs, "UngrabServer") = 1

\* The event mask the manager has on the root after the requests of `trace`:
\* XSelectInput replaces the mask the client selected before.
RootMask(trace) ==
  LET sel == SelectSeq(trace, LAMBDA q : q.op = "SelectInput" /\ q.w = Root)
  IN IF sel = <<>> THEN {} ELSE sel[Len(sel)].mask

\* C32: when the loop (rdwm.rs) starts reading events, the mask selected on
\* the root holds KeyPress, SubstructureRedirect, SubstructureNotify and
\* FocusChange.
C32_RootMask ==
  (build = "rdwm" /\ pc = "loop_top" /\ ev.type = "ungrab") =>
    ({"KeyPress"} \cup RootRunMask) \subseteq RootMask(reqs)

\* The passive key grabs on the root after the requests of `trace`.
RECURSIVE Grabs(_)
Grabs(trace) ==
  IF trace = <<>> THEN {}
  ELSE LET q == trace[Len(trace)]
           before == Grabs(SubSeq(trace, 1, Len(trace) - 1))
       IN IF q.op = "GrabKey" THEN before \cup {<<q.keycode, q.mods>>}
          ELSE IF q.op = "UngrabKey" THEN before \ {<<q.keycode, q.mods>>}
          ELSE before

\* C33: after the startup the key grabs on the root are exactly the
\* (keycode, modifiers) pairs of the binding table, one GrabKey per binding,
\* and they are still in place after a key has been pressed.
C33_GrabsMatchBindings ==
  (build = "rdwm" /\ ev.type = "register_root"
     /\ pc \in {"grabbed", "pressed"}) =>
    /\ Grabs(reqs) = ev.bindings
    /\ Count(reqs, "GrabKey") = Cardinality(ev.bindings)

\* The events the server sends back for the manager's own framing and
\* teardown requests: UnmapNotify reported on the root, and the notifications
\* of a reparent, a map, a configure and a destroy.
EchoTypes == {"ReparentNotify", "MapNotify", "ConfigureNotify", "DestroyNotify"}
TeardownOps == {"UnmapWindow", "ReparentWindow", "RemoveFromSaveSet", "DestroyWindow"}

\* C38: dispatching an event that the server generated for the manager's own
\* requests adds no client, removes none, starts no teardown and does not end
\* the loop.
C38_EchoesInert ==
  [][ (/\ build = "rdwm"
       /\ pc = "next_event"
       /\ \/ ev'.type = "UnmapNotify" /\ ev'.event = Root
          \/ ev'.type \in EchoTypes)
      => /\ pc' = "loop_top"
         /\ exit_code' = exit_code
         /\ workspaces'[current + 1].clients = Clients
         /\ Only(reqs', TeardownOps \cup FramingOps) = <<>>
         /\ xserver'.frames = xserver.frames ]_vars

\* C38 witness: the DestroyNotify of a frame that a teardown destroyed was
\* dispatched while another client is managed.
C38_Witness ==
  /\ build = "rdwm" /\ pc = "loop_top"
  /\ ev.type = "DestroyNotify" /\ ev.window = FrameId(0)
  /\ FrameId(0) \notin xserver.frames
  /\ Len(Clients) >= 1

====
